---- MODULE Spec2Model ----
(***************************************************************************)
(* EliminateDeadConstantPass::Process                                      *)
(* (source/opt/eliminate_dead_constant_pass.cpp).                          *)
(*                                                                         *)
(* An instruction is identified by its position in the module (the         *)
(* ir::Instruction* of the code).  An instruction that defines a value has *)
(* its position as result id; annotation and debug instructions define no  *)
(* value.  Each in-operand is a record [type, word].                       *)
(***************************************************************************)
EXTENDS Integers, FiniteSets, Sequences, TLC

\* Number of constant-defining instructions of the modules explored.
NumConsts == 2

ConstIds == 1 .. NumConsts

\* The one value-defining instruction that is not a constant (an OpTypeArray,
\* whose length operand is a constant id).
TypeId == NumConsts + 1

\* The one instruction without a result id (a decoration or a debug name).
MetaId == NumConsts + 2

InstIds == 1 .. MetaId

\* An id that no instruction of the module defines.
UndefinedId == MetaId + 1

\* GetDef's "no definition" (nullptr).
NoInst == 0

IdOperand(w) == [type |-> "SPV_OPERAND_TYPE_ID", word |-> w]

\* A literal word; its value is also the result id of the first constant.
LiteralOperand == [type |-> "SPV_OPERAND_TYPE_LITERAL_INTEGER", word |-> 1]

\* The sub-opcode of an OpSpecConstantOp; its value is also a result id.
OpNumberOperand == [type |-> "SPV_OPERAND_TYPE_SPEC_CONSTANT_OP_NUMBER", word |-> 2]

----------------------------------------------------------------------------
\* Opcode classification (reflect.h).

IsConstantInst(op) ==
    op \in {"OpConstant", "OpConstantComposite", "OpSpecConstantComposite",
            "OpSpecConstantOp"}

IsAnnotationInst(op) == op \in {"OpDecorate", "OpGroupDecorate"}

IsDebug1Inst(op) == op \in {"OpString"}

IsDebug2Inst(op) == op \in {"OpName"}

IsDebug3Inst(op) == op \in {"OpModuleProcessed"}

HasResultId(op) == IsConstantInst(op) \/ op \in {"OpTypeArray", "OpString"}

----------------------------------------------------------------------------
\* The modules explored.

\* The value-defining instructions: the constants and the type.
OperandTargets == ConstIds \cup {TypeId}

\* One constant constituent, or two, the same one twice included, or two
\* operands that are no constants: the type and an id without definition.
CompositeOperands ==
    {<<IdOperand(a)>> : a \in ConstIds}
        \cup {<<IdOperand(TypeId), IdOperand(UndefinedId)>>}
        \cup {<<IdOperand(p[1]), IdOperand(p[2])>> :
                 p \in {q \in ConstIds \X ConstIds : q[1] <= q[2]}}

\* OpConstant carries a literal value, a composite its constituents, an
\* OpSpecConstantOp its sub-opcode and then that operation's operand.
ConstantInsts ==
    {[opcode |-> "OpConstant", operands |-> <<LiteralOperand>>]}
        \cup {[opcode |-> "OpConstantComposite", operands |-> os] :
                 os \in CompositeOperands}
        \cup {[opcode |-> "OpSpecConstantOp",
               operands |-> <<OpNumberOperand, IdOperand(a)>>] : a \in ConstIds}

\* The type either names no constant or has a constant as its length.
TypeInsts ==
    {[opcode |-> "OpTypeArray", operands |-> os] :
        os \in {<<>>} \cup {<<IdOperand(c)>> : c \in ConstIds}}

\* A debug name of one id, or a group decoration of two distinct constants
\* (the decoration-group operand, never a constant, is left out).
MetaInsts ==
    {[opcode |-> "OpName", operands |-> <<IdOperand(t), LiteralOperand>>] :
        t \in OperandTargets}
        \cup {[opcode |-> "OpGroupDecorate",
               operands |-> <<IdOperand(p[1]), IdOperand(p[2])>>] :
                 p \in {q \in ConstIds \X ConstIds : q[1] < q[2]}}

Modules ==
    {[n \in InstIds |-> IF n \in ConstIds THEN cs[n]
                        ELSE IF n = TypeId THEN t ELSE d] :
        cs \in [ConstIds -> ConstantInsts], t \in TypeInsts, d \in MetaInsts}

----------------------------------------------------------------------------
VARIABLES
    module,         \* position -> instruction, as built before the first run
    alive,          \* the instructions not yet turned into OpNop
    run,            \* "first", or "again" on the module the first run left
    pc,             \* where Process is
    iter,           \* what the current range-for loop has still to visit
    use_counts,     \* std::unordered_map<Instruction*, size_t>
    working_list,   \* std::unordered_set<Instruction*>
    dead_consts,    \* std::unordered_set<Instruction*>
    dead_others,    \* std::unordered_set<Instruction*>
    inst,           \* the instruction taken from the working list
    i,              \* the in-operand index of the inner for loop
    iterations,     \* iterations of the while loop begun in this run
    started,        \* `alive` as it was when this run of Process started
    killdef_reqs,   \* position -> number of KillDef calls of this run
    killinst_reqs,  \* position -> number of KillInst calls of this run
    status,         \* the value Process returned
    decrements      \* <<user, constant>> -> decrements of the constant's count
                    \* made for that user in this run

vars == <<module, alive, run, pc, iter, use_counts, working_list, dead_consts,
          dead_others, inst, i, iterations, started, killdef_reqs,
          killinst_reqs, status, decrements>>

\* What one invocation's local state is before its first statement.
locals == <<use_counts, working_list, dead_consts, dead_others, inst, i>>

----------------------------------------------------------------------------
\* The collaborators: the module and its def-use manager.

result_id(m, n) == IF HasResultId(m[n].opcode) THEN n ELSE 0

NumInOperands(m, n) == Len(m[n].operands)

GetInOperand(m, n, k) == m[n].operands[k + 1]

GetSingleWordInOperand(m, n, k) == m[n].operands[k + 1].word

\* IRContext::GetConstants: the constant-defining instructions of the module.
GetConstants(m, live) == {n \in live : IsConstantInst(m[n].opcode)}

\* DefUseManager::GetDef: the live instruction whose result id is `id`.
GetDef(m, live, id) ==
    IF \E n \in live : result_id(m, n) = id /\ id # 0
    THEN CHOOSE n \in live : result_id(m, n) = id
    ELSE NoInst

\* DefUseManager::ForEachUse: every <<user, operand index>> whose operand is
\* an id operand naming `id`.  (Result-type operands are left out: a type is
\* never a constant.)
Uses(m, live, id) ==
    UNION {{<<n, k>> : k \in {j \in 0 .. NumInOperands(m, n) - 1 :
                                /\ GetInOperand(m, n, j).type = "SPV_OPERAND_TYPE_ID"
                                /\ GetSingleWordInOperand(m, n, j) = id}} :
           n \in live}

\* DefUseManager::ForEachUser: the users of the value `def` defines.
Users(m, live, def) == {u[1] : u \in Uses(m, live, result_id(m, def))}

\* IRContext::KillInst: the instruction becomes OpNop and leaves the index.
KillInst(live, n) == live \ {n}

\* IRContext::KillDef: kill the instruction that defines `id`, if any.
KillDef(m, live, id) ==
    IF GetDef(m, live, id) = NoInst THEN live
    ELSE KillInst(live, GetDef(m, live, id))

----------------------------------------------------------------------------
\* Process, statement by statement.

\* A faulty variant: IsDebug2Inst (OpName, OpMemberName) is forgotten.
IsMetadata_NoDebug2(op) ==
    IsAnnotationInst(op) \/ IsDebug1Inst(op) \/ IsDebug3Inst(op)

\* The test of lines 43-44 and 100-103: an annotation or debug instruction.
IsMetadata(op) ==
    IsAnnotationInst(op) \/ IsDebug1Inst(op) \/ IsDebug2Inst(op) \/ IsDebug3Inst(op)

\* A faulty variant: uses in other constants are not counted either.
RealUses_NotInConstants(m, live, c) ==
    {u \in Uses(m, live, result_id(m, c)) :
        ~IsMetadata(m[u[1]].opcode) /\ ~IsConstantInst(m[u[1]].opcode)}

\* A faulty variant: every use is counted, those in annotation and debug instructions
\* too.
RealUses_All(m, live, c) == Uses(m, live, result_id(m, c))

\* A faulty variant: a user is counted once, however many of its operands name `c`.
RealUses_PerUser(m, live, c) ==
    {<<u[1], 0>> : u \in {v \in Uses(m, live, result_id(m, c)) :
                             ~IsMetadata(m[v[1]].opcode)}}

\* A faulty variant: a use of a constant by itself is not counted.
RealUses_NotBySelf(m, live, c) ==
    {u \in Uses(m, live, result_id(m, c)) :
        ~IsMetadata(m[u[1]].opcode) /\ u[1] # c}

\* Lines 39-47: the uses of `c` the lambda counts.
RealUses(m, live, c) ==
    {u \in Uses(m, live, result_id(m, c)) : ~IsMetadata(m[u[1]].opcode)}

\* A faulty variant: the case of OpConstantComposite is missing.
HasIdOperandsToTrace_NoComposite(op) ==
    op \in {"OpSpecConstantComposite", "OpSpecConstantOp"}

\* A faulty variant: the case of OpSpecConstantOp is missing.
HasIdOperandsToTrace_NoSpecOp(op) ==
    op \in {"OpConstantComposite", "OpSpecConstantComposite"}

\* The switch of lines 60-63: the opcodes whose operands are traversed.
HasIdOperandsToTrace(op) ==
    op \in {"OpConstantComposite", "OpSpecConstantComposite", "OpSpecConstantOp"}

\* A faulty variant: only annotation instructions are collected.
MetadataUsers_AnnotationOnly(m, live, dc) ==
    {u \in Users(m, live, dc) : IsAnnotationInst(m[u].opcode)}

\* A faulty variant: every user is collected, whatever its opcode.
MetadataUsers_AllUsers(m, live, dc) == Users(m, live, dc)

\* Lines 98-106: the users of `dc` that go into dead_others.
MetadataUsers(m, live, dc) ==
    {u \in Users(m, live, dc) : IsMetadata(m[u].opcode)}

\* A faulty variant: the operand type is not looked at.
IsIdOperand_Any(operand) == TRUE

\* Line 67: the operand is an identifier reference.
IsIdOperand(operand) == operand.type = "SPV_OPERAND_TYPE_ID"

\* A faulty variant: the guard of line 75 is missing.
HasCount_Always(counts, k) == TRUE

\* Line 75: use_counts.count(def_inst).
HasCount(counts, k) == k \in DOMAIN counts

\* std::unordered_map::operator[] as a read: a missing key is
\* value-initialised.
At(counts, k) == IF k \in DOMAIN counts THEN counts[k] ELSE 0

\* std::unordered_map::operator[] as a write: a missing key is inserted.
Put(counts, k, v) ==
    [n \in DOMAIN counts \cup {k} |-> IF n = k THEN v ELSE counts[n]]

\* Line 82: the count has reached zero.
ReachesZero(n) == n = 0

\* The largest size_t; the largest integer of the model checker stands for
\* 2^64 - 1.
SIZE_MAX == 2147483647

\* A faulty variant: the count is not decremented.
Decrement_Not(n) == n

\* size_t arithmetic of --use_counts[def_inst].
Decrement(n) == IF n = 0 THEN SIZE_MAX ELSE n - 1

NoRequests == [n \in InstIds |-> 0]

NoCounts == [n \in {} |-> 0]

\* A faulty variant: the loop of line 113 visits dead_consts instead of
\* dead_others.
Enter_KillInstOverDeadConsts(phase, wl, dc, others) ==
    IF phase = "loop" /\ wl # {} THEN <<"loop", {}>>
    ELSE IF dc = {} THEN <<"return", {}>>
    ELSE IF phase \in {"loop", "discover"} THEN <<"discover", dc>>
    ELSE IF phase = "killdef" THEN <<"killdef", dc>>
    ELSE <<"killinst", dc>>

\* Control after a statement: the tests of the loops that follow it are
\* evaluated with it.  `phase` is the loop control reaches; a loop with
\* nothing to visit is passed by.  The result is <<pc, iter>>.
RECURSIVE Enter(_, _, _, _)
Enter(phase, wl, dc, others) ==
    CASE phase = "loop" ->
             IF wl # {} THEN <<"loop", {}>>
             ELSE Enter("discover", wl, dc, others)
      [] phase = "discover" ->
             IF dc # {} THEN <<"discover", dc>>
             ELSE Enter("killdef", wl, dc, others)
      [] phase = "killdef" ->
             IF dc # {} THEN <<"killdef", dc>>
             ELSE Enter("killinst", wl, dc, others)
      [] phase = "killinst" ->
             IF others # {} THEN <<"killinst", others>>
             ELSE <<"return", {}>>

Init ==
    /\ module \in Modules
    /\ alive = InstIds
    /\ run = "first"
    /\ pc = "count"
    /\ iter = GetConstants(module, alive)
    /\ use_counts = NoCounts
    /\ working_list = {}
    /\ dead_consts = {}
    /\ dead_others = {}
    /\ inst = NoInst
    /\ i = 0
    /\ iterations = 0
    /\ started = alive
    /\ killdef_reqs = NoRequests
    /\ killinst_reqs = NoRequests
    /\ status = "none"
    /\ decrements = NoCounts

\* Lines 35-52, the whole loop over `constants`: each constant gets the
\* number of its real uses, and those with none seed the working list.
CountUses ==
    /\ pc = "count"
    /\ use_counts' = [c \in iter |-> Cardinality(RealUses(module, alive, c))]
    /\ working_list' = {c \in iter : use_counts'[c] = 0}
    /\ LET next == Enter("loop", working_list', {}, {}) IN
           pc' = next[1] /\ iter' = next[2]
    /\ UNCHANGED <<module, alive, run, dead_consts, dead_others, inst, i,
                   iterations, started, killdef_reqs, killinst_reqs, status,
                   decrements>>

\* Lines 57-63: take any instruction of the working list and dispatch on its
\* opcode.
TakeInst(n) ==
    /\ pc = "loop"
    /\ n \in working_list
    /\ inst' = n
    /\ i' = 0
    /\ iterations' = iterations + 1
    /\ pc' = IF HasIdOperandsToTrace(module[n].opcode) THEN "operands" ELSE "retire"
    /\ UNCHANGED <<module, alive, run, iter, use_counts, working_list,
                   dead_consts, dead_others, started, killdef_reqs,
                   killinst_reqs, status,
                   decrements>>

\* Lines 64-85, one in-operand of `inst`.
OperandStep ==
    /\ pc = "operands"
    /\ i < NumInOperands(module, inst)
    /\ LET def_inst == GetDef(module, alive, GetSingleWordInOperand(module, inst, i)) IN
         IF ~IsIdOperand(GetInOperand(module, inst, i))
         THEN /\ i' = i + 1
              /\ UNCHANGED <<pc, use_counts, working_list, decrements>>
         ELSE IF ~HasCount(use_counts, def_inst)
         THEN /\ i' = i + 1
              /\ UNCHANGED <<pc, use_counts, working_list, decrements>>
         ELSE \E assert_enabled \in BOOLEAN :
                \* SPIRV_ASSERT aborts, unless NDEBUG compiled it out.
                IF assert_enabled /\ ~(At(use_counts, def_inst) > 0)
                THEN /\ pc' = "failed"
                     /\ UNCHANGED <<i, use_counts, working_list, decrements>>
                ELSE /\ use_counts' = Put(use_counts, def_inst,
                                          Decrement(At(use_counts, def_inst)))
                     /\ working_list' = IF ReachesZero(At(use_counts', def_inst))
                                        THEN working_list \cup {def_inst}
                                        ELSE working_list
                     /\ decrements' = Put(decrements, <<inst, def_inst>>,
                                          At(decrements, <<inst, def_inst>>) + 1)
                     /\ i' = i + 1
                     /\ UNCHANGED pc
    /\ UNCHANGED <<module, alive, run, iter, dead_consts, dead_others, inst,
                   iterations, started, killdef_reqs, killinst_reqs, status>>

\* The operand loop is over, or the opcode was not one of the switch.
AtRetire ==
    pc = "retire" \/ (pc = "operands" /\ i >= NumInOperands(module, inst))

\* A faulty variant: the working list is cleared instead of erasing `inst` from it.
Retire_ClearAll ==
    /\ AtRetire
    /\ dead_consts' = dead_consts \cup {inst}
    /\ working_list' = {}
    /\ LET next == Enter("loop", working_list', dead_consts', {}) IN
           pc' = next[1] /\ iter' = next[2]
    /\ UNCHANGED <<module, alive, run, use_counts, dead_others, inst, i,
                   iterations, started, killdef_reqs, killinst_reqs, status,
                   decrements>>

\* A faulty variant: `inst` is not erased from the working list.
Retire_NoErase ==
    /\ AtRetire
    /\ dead_consts' = dead_consts \cup {inst}
    /\ LET next == Enter("loop", working_list, dead_consts', {}) IN
           pc' = next[1] /\ iter' = next[2]
    /\ UNCHANGED <<module, alive, run, use_counts, working_list, dead_others,
                   inst, i, iterations, started, killdef_reqs, killinst_reqs,
                   status,
                   decrements>>

\* A faulty variant: `inst` is erased but not put into dead_consts.
Retire_NoInsert ==
    /\ AtRetire
    /\ working_list' = working_list \ {inst}
    /\ LET next == Enter("loop", working_list', dead_consts, {}) IN
           pc' = next[1] /\ iter' = next[2]
    /\ UNCHANGED <<module, alive, run, use_counts, dead_consts, dead_others,
                   inst, i, iterations, started, killdef_reqs, killinst_reqs,
                   status, decrements>>

\* Lines 90-91, and the test of line 57.
Retire ==
    /\ AtRetire
    /\ dead_consts' = dead_consts \cup {inst}
    /\ working_list' = working_list \ {inst}
    /\ LET next == Enter("loop", working_list', dead_consts', {}) IN
           pc' = next[1] /\ iter' = next[2]
    /\ UNCHANGED <<module, alive, run, use_counts, dead_others, inst, i,
                   iterations, started, killdef_reqs, killinst_reqs, status,
                   decrements>>

\* A faulty variant: the dead constant is killed as soon as its users are
\* collected.
Discover_KillsAtOnce(dc) ==
    /\ pc = "discover"
    /\ dc \in iter
    /\ dead_others' = dead_others \cup MetadataUsers(module, alive, dc)
    /\ alive' = KillDef(module, alive, result_id(module, dc))
    /\ killdef_reqs' = [killdef_reqs EXCEPT ![dc] = @ + 1]
    /\ LET next ==
               IF iter \ {dc} # {} THEN <<"discover", iter \ {dc}>>
               ELSE Enter("killinst", {}, dead_consts, dead_others')
       IN  pc' = next[1] /\ iter' = next[2]
    /\ UNCHANGED <<module, run, use_counts, working_list, dead_consts,
                   inst, i, iterations, started, killinst_reqs, status,
                   decrements>>

\* Lines 97-107, one dead constant: collect its annotation and debug users.
Discover(dc) ==
    /\ pc = "discover"
    /\ dc \in iter
    /\ dead_others' = dead_others \cup MetadataUsers(module, alive, dc)
    /\ LET next ==
               IF iter \ {dc} # {} THEN <<"discover", iter \ {dc}>>
               ELSE Enter("killdef", {}, dead_consts, dead_others')
       IN  pc' = next[1] /\ iter' = next[2]
    /\ UNCHANGED <<module, alive, run, use_counts, working_list, dead_consts,
                   inst, i, iterations, started, killdef_reqs, killinst_reqs,
                   status,
                   decrements>>

\* Lines 110-112, one dead constant.
KillDefStep(dc) ==
    /\ pc = "killdef"
    /\ dc \in iter
    /\ alive' = KillDef(module, alive, result_id(module, dc))
    /\ killdef_reqs' = [killdef_reqs EXCEPT ![dc] = @ + 1]
    /\ LET next ==
               IF iter \ {dc} # {} THEN <<"killdef", iter \ {dc}>>
               ELSE Enter("killinst", {}, dead_consts, dead_others)
       IN  pc' = next[1] /\ iter' = next[2]
    /\ UNCHANGED <<module, run, use_counts, working_list, dead_consts,
                   dead_others, inst, i, iterations, started, killinst_reqs,
                   status,
                   decrements>>

\* Lines 113-115, one dead annotation or debug instruction.
KillInstStep(da) ==
    /\ pc = "killinst"
    /\ da \in iter
    /\ alive' = KillInst(alive, da)
    /\ killinst_reqs' = [killinst_reqs EXCEPT ![da] = @ + 1]
    /\ LET next ==
               IF iter \ {da} # {} THEN <<"killinst", iter \ {da}>>
               ELSE <<"return", {}>>
       IN  pc' = next[1] /\ iter' = next[2]
    /\ UNCHANGED <<module, run, use_counts, working_list, dead_consts,
                   dead_others, inst, i, iterations, started, killdef_reqs,
                   status,
                   decrements>>

\* A faulty variant: the status is taken from dead_others instead of dead_consts.
Return_ByDeadOthers ==
    /\ pc = "return"
    /\ status' = IF dead_others = {} THEN "SuccessWithoutChange"
                 ELSE "SuccessWithChange"
    /\ pc' = "done"
    /\ UNCHANGED <<module, alive, run, iter, use_counts, working_list,
                   dead_consts, dead_others, inst, i, iterations, started,
                   killdef_reqs, killinst_reqs,
                   decrements>>

\* Lines 116-117.
Return ==
    /\ pc = "return"
    /\ status' = IF dead_consts = {} THEN "SuccessWithoutChange"
                 ELSE "SuccessWithChange"
    /\ pc' = "done"
    /\ UNCHANGED <<module, alive, run, iter, use_counts, working_list,
                   dead_consts, dead_others, inst, i, iterations, started,
                   killdef_reqs, killinst_reqs,
                   decrements>>

\* The pass is run again on the module as the previous run left it
\* (lines 30, 34, 56, 96: fresh local containers).
RunAgain ==
    /\ pc = "done"
    /\ run = "first"
    /\ run' = "again"
    /\ pc' = "count"
    /\ iter' = GetConstants(module, alive)
    /\ use_counts' = NoCounts
    /\ working_list' = {}
    /\ dead_consts' = {}
    /\ dead_others' = {}
    /\ inst' = NoInst
    /\ i' = 0
    /\ iterations' = 0
    /\ started' = alive
    /\ killdef_reqs' = NoRequests
    /\ killinst_reqs' = NoRequests
    /\ status' = "none"
    /\ decrements' = NoCounts
    /\ UNCHANGED <<module, alive>>

\* One invocation of Process.
Process ==
    \/ CountUses
    \/ \E n \in InstIds : TakeInst(n)
    \/ OperandStep
    \/ Retire
    \/ \E dc \in InstIds : Discover(dc)
    \/ \E dc \in InstIds : KillDefStep(dc)
    \/ \E da \in InstIds : KillInstStep(da)
    \/ Return

Next == Process \/ RunAgain

Spec == Init /\ [][Next]_vars

\* One invocation, which runs to completion: no step of Process waits for
\* anything.
FairSpec == Init /\ [][Process]_vars /\ WF_vars(Process)

----------------------------------------------------------------------------
\* Vocabulary of the properties.

\* The constants of the module as this run of Process found it.
ConstantsAtStart == GetConstants(module, started)

\* The uses of `c` in the def-use index as it was when this run started.
UsesAtStart(c) == Uses(module, started, result_id(module, c))

\* The while loop is over: the dead set is final.
LoopFinished == pc \in {"discover", "killdef", "killinst", "return", "done"}

\* The loop of lines 97-107 is over: the dead-metadata set is final.
DiscoveryFinished == pc \in {"killdef", "killinst", "return", "done"}

\* The constants an instruction names in its id operands.
ConstantsNamedBy(n) == {c \in ConstantsAtStart : \E u \in UsesAtStart(c) : u[1] = n}

NoKillRequested ==
    \A n \in InstIds : killdef_reqs[n] = 0 /\ killinst_reqs[n] = 0

\* The constants whose real uses are all in members of D.
FreedBy(D) ==
    {c \in ConstantsAtStart :
        \A u \in UsesAtStart(c) : IsMetadata(module[u[1]].opcode) \/ u[1] \in D}

\* The least set of constants closed under FreedBy: what is dead whatever
\* the order of removal.
RECURSIVE DeadFrom(_)
DeadFrom(D) == IF FreedBy(D) = D THEN D ELSE DeadFrom(FreedBy(D))

----------------------------------------------------------------------------
\* C1 (soundness).  When Process finishes, every use (in the def-use index
\* as it was when Process started) of a constant of the dead set is in an
\* annotation/debug instruction or in an operand of a constant that is in
\* the dead set too: no instruction that stays refers to a removed constant.
Soundness ==
    pc = "done" =>
        \A c \in dead_consts : \A u \in UsesAtStart(c) :
            \/ IsMetadata(module[u[1]].opcode)
            \/ u[1] \in dead_consts /\ IsConstantInst(module[u[1]].opcode)

\* Process finished having removed a constant together with the other
\* constant that uses it.
SoundnessWitness ==
    /\ pc = "done"
    /\ \E c \in dead_consts : \E u \in UsesAtStart(c) :
           u[1] \in dead_consts /\ u[1] # c

\* C2 (completeness).  When the propagation loop has finished, every
\* constant all of whose uses are in annotation/debug instructions or in
\* operands of dead constants (a constant without any use included) is in
\* the dead set.
Completeness ==
    LoopFinished =>
        \A c \in ConstantsAtStart :
            (\A u \in UsesAtStart(c) :
                IsMetadata(module[u[1]].opcode) \/ u[1] \in dead_consts)
            => c \in dead_consts

\* The loop finished with a dead composite and, nested in it and named by
\* metadata, a constant that only the composite and the metadata use.
CompletenessWitness ==
    /\ pc = "discover"
    /\ \E c \in dead_consts :
           /\ \E u \in UsesAtStart(c) :
                  u[1] \in dead_consts /\ u[1] # c
           /\ \E u \in UsesAtStart(c) : IsMetadata(module[u[1]].opcode)

\* C3.  An annotation/debug instruction that names at least one constant
\* that is not in the final dead set is kept: it is not in the
\* dead-metadata set and no KillInst is requested for it.
LiveMetadataPreserved ==
    DiscoveryFinished =>
        \A n \in started :
            (/\ IsMetadata(module[n].opcode)
             /\ ConstantsNamedBy(n) \ dead_consts # {})
            => n \notin dead_others /\ killinst_reqs[n] = 0

\* C4.  An annotation/debug instruction that names constants and only dead
\* ones is in the dead-metadata set once discovery has finished, and when
\* Process finishes it and the constants it names are gone from the module.
DeadMetadataRemoved ==
    DiscoveryFinished =>
        \A n \in started :
            (/\ IsMetadata(module[n].opcode)
             /\ ConstantsNamedBy(n) # {}
             /\ ConstantsNamedBy(n) \subseteq dead_consts)
            => /\ n \in dead_others
               /\ pc = "done" => /\ n \notin alive
                                 /\ killinst_reqs[n] > 0
                                 /\ ConstantsNamedBy(n) \cap alive = {}

\* Process finished having removed a constant that only a debug name used,
\* and the name with it.
DeadMetadataRemovedWitness ==
    /\ pc = "done"
    /\ \E n \in started \ alive :
           /\ module[n].opcode = "OpName"
           /\ ConstantsNamedBy(n) # {}
           /\ \A c \in ConstantsNamedBy(n) :
                  c \in dead_consts /\ Cardinality(UsesAtStart(c)) = 1

\* C5 (idempotence).  A run of Process on the module an earlier run left
\* finds nothing dead, requests no removal, leaves the module as it is and
\* returns SuccessWithoutChange.
Idempotence ==
    (pc = "done" /\ run = "again") =>
        /\ dead_consts = {}
        /\ dead_others = {}
        /\ NoKillRequested
        /\ alive = started
        /\ status = "SuccessWithoutChange"

\* The second run finished on a module from which the first run had removed
\* a composite, and which still holds a constant.
IdempotenceWitness ==
    /\ pc = "done"
    /\ run = "again"
    /\ \E n \in InstIds \ started : HasIdOperandsToTrace(module[n].opcode)
    /\ ConstantsAtStart # {}

\* C6.  Process returns SuccessWithoutChange when the dead set is empty and
\* SuccessWithChange otherwise; it returns SuccessWithoutChange exactly when
\* it requested no KillDef and no KillInst and the module is as it was; the
\* dead-metadata set is never non-empty while the dead set is empty.
StatusFaithful ==
    /\ pc = "done" =>
           /\ status = (IF dead_consts = {} THEN "SuccessWithoutChange"
                        ELSE "SuccessWithChange")
           /\ (status = "SuccessWithoutChange") <=> NoKillRequested
           /\ (status = "SuccessWithoutChange") <=> (alive = started)
    /\ dead_consts = {} => dead_others = {}

\* Process returned SuccessWithChange from a first run that removed a
\* constant and no metadata.
StatusFaithfulWitness ==
    /\ pc = "done"
    /\ run = "first"
    /\ status = "SuccessWithChange"
    /\ dead_others = {}
    /\ \E c \in ConstantsAtStart : killdef_reqs[c] = 1

\* C7 (order independence).  Whatever the order in which the constants were
\* enumerated and the instructions taken from the working list, Process
\* ends with the dead set, the dead-metadata set and the status that the
\* module alone determines.
OrderIndependence ==
    pc = "done" =>
        LET dead == DeadFrom({}) IN
            /\ dead_consts = dead
            /\ dead_others =
                   UNION {MetadataUsers(module, started, c) : c \in dead}
            /\ status = (IF dead = {} THEN "SuccessWithoutChange"
                         ELSE "SuccessWithChange")

\* A run in which the working list held two instructions from the start, so
\* that the order was a choice, has finished and removed metadata too.
OrderIndependenceWitness ==
    /\ pc = "done"
    /\ \E a, b \in dead_consts :
           /\ a # b
           /\ RealUses(module, started, a) = {}
           /\ RealUses(module, started, b) = {}
    /\ dead_others # {}

\* C8.  Only constant-defining instructions are in the working list and the
\* dead set and get a KillDef; only annotation/debug instructions are in
\* the dead-metadata set and get a KillInst; every other instruction stays.
OnlyConstantsAndMetadata ==
    /\ \A n \in working_list \cup dead_consts : IsConstantInst(module[n].opcode)
    /\ \A n \in dead_others : IsMetadata(module[n].opcode)
    /\ \A n \in InstIds :
           /\ killdef_reqs[n] > 0 => IsConstantInst(module[n].opcode)
           /\ killinst_reqs[n] > 0 => IsMetadata(module[n].opcode)
           /\ (~IsConstantInst(module[n].opcode) /\ ~IsMetadata(module[n].opcode))
                  => n \in alive

\* Process finished and kept a type that nothing uses but a composite it
\* removed.
OnlyConstantsAndMetadataWitness ==
    /\ pc = "done"
    /\ TypeId \in alive
    /\ Users(module, started, TypeId) # {}
    /\ Users(module, started, TypeId) \subseteq dead_consts

\* C9 (termination).  The propagation loop always ends, and no run begins
\* more iterations of it than the module has constant-defining instructions.
LoopTerminates ==
    /\ [](iterations <= Cardinality(ConstantsAtStart))
    /\ (pc \in {"loop", "operands", "retire"}) ~> LoopFinished

\* The loop ended after as many iterations as there are constants, more
\* than one.
LoopTerminatesWitness ==
    /\ pc = "discover"
    /\ iterations = Cardinality(ConstantsAtStart)
    /\ iterations > 1

\* C10.  Whenever the propagation loop is about to decrement the use count
\* of a constant, that count is strictly positive; the assertion of line 80
\* never fails.
DecrementOfPositive ==
    /\ pc # "failed"
    /\ (pc = "operands" /\ i < NumInOperands(module, inst)
        /\ GetInOperand(module, inst, i).type = "SPV_OPERAND_TYPE_ID"
        /\ GetDef(module, alive, GetSingleWordInOperand(module, inst, i))
               \in DOMAIN use_counts)
       => use_counts[GetDef(module, alive,
                            GetSingleWordInOperand(module, inst, i))] > 0

\* The loop is about to decrement a constant for the second operand of a
\* composite that names it twice.
DecrementOfPositiveWitness ==
    /\ pc = "operands"
    /\ i = 1
    /\ NumInOperands(module, inst) = 2
    /\ GetInOperand(module, inst, 0) = GetInOperand(module, inst, 1)
    /\ GetSingleWordInOperand(module, inst, 1) \in DOMAIN use_counts
    /\ use_counts[GetSingleWordInOperand(module, inst, 1)] = 1

----------------------------------------------------------------------------
\* The loop is at the in-operand `i` of `inst`, about to execute lines 67-84.
AtOperand == pc = "operands" /\ i < NumInOperands(module, inst)

\* The instruction the operand at hand resolves to.
OperandDef == GetDef(module, alive, GetSingleWordInOperand(module, inst, i))

\* C11 (non-reference operand safety).  A step of the operand loop at an
\* operand that is not an identifier reference (the sub-opcode of an
\* OpSpecConstantOp, whose value is the result id of a constant) changes no
\* use count and inserts nothing into the working list.
NonReferenceOperandSkipped ==
    [][(AtOperand
        /\ GetInOperand(module, inst, i).type # "SPV_OPERAND_TYPE_ID")
       => /\ use_counts' = use_counts
          /\ working_list' = working_list
          /\ decrements' = decrements]_vars

\* The loop has passed the sub-opcode of an OpSpecConstantOp whose value is
\* the id of a constant with a positive count, and that count is intact.
NonReferenceOperandSkippedWitness ==
    /\ pc = "operands"
    /\ i = 1
    /\ module[inst].opcode = "OpSpecConstantOp"
    /\ GetInOperand(module, inst, 0).type # "SPV_OPERAND_TYPE_ID"
    /\ GetSingleWordInOperand(module, inst, 0) \in DOMAIN use_counts
    /\ use_counts[GetSingleWordInOperand(module, inst, 0)] =
           Cardinality(RealUses(module, started,
                                GetSingleWordInOperand(module, inst, 0)))
    /\ use_counts[GetSingleWordInOperand(module, inst, 0)] > 0

\* The uses of `c` by instructions that are neither annotation nor debug
\* instructions of tier 1, 2 or 3, read off the operands of the module.
SemanticUsePositions(c) ==
    {p \in UNION {{<<n, k>> : k \in 1 .. Len(module[n].operands)} :
                     n \in started} :
        /\ module[p[1]].operands[p[2]] = IdOperand(c)
        /\ ~IsAnnotationInst(module[p[1]].opcode)
        /\ ~IsDebug1Inst(module[p[1]].opcode)
        /\ ~IsDebug2Inst(module[p[1]].opcode)
        /\ ~IsDebug3Inst(module[p[1]].opcode)}

\* The use-count phase is over and the propagation has not begun.
AfterUseCountPhase == pc # "count" /\ iterations = 0

\* C12.  After the use-count phase the table has an entry for exactly the
\* constants of the module, each the number of its uses by non-metadata
\* instructions, and the working list is the set of constants whose count is
\* zero.
UseCountsExact ==
    AfterUseCountPhase =>
        /\ DOMAIN use_counts = ConstantsAtStart
        /\ \A c \in ConstantsAtStart :
               use_counts[c] = Cardinality(SemanticUsePositions(c))
        /\ working_list = {c \in ConstantsAtStart : use_counts[c] = 0}

\* After the use-count phase a constant that only a debug name uses is in
\* the working list, and another constant has a count of two.
UseCountsExactWitness ==
    /\ pc = "loop"
    /\ iterations = 0
    /\ \E c \in working_list : Uses(module, started, c) # {}
    /\ \E c \in ConstantsAtStart : use_counts[c] = 2

\* C13 (benign absence).  A step at an identifier operand that resolves to
\* an instruction without entry in the table (the type, or no definition)
\* raises no failure and leaves the table and the working list as they are;
\* the table never has an entry for anything but a constant, and no such
\* instruction is ever in the working list or the dead set.
BenignAbsence ==
    /\ [][(AtOperand
           /\ GetInOperand(module, inst, i).type = "SPV_OPERAND_TYPE_ID"
           /\ OperandDef \notin DOMAIN use_counts)
          => /\ pc' # "failed"
             /\ use_counts' = use_counts
             /\ working_list' = working_list]_vars
    /\ [](/\ DOMAIN use_counts \subseteq ConstantsAtStart
          /\ (working_list \cup dead_consts) \subseteq ConstantsAtStart)

\* The loop has passed both operands of a composite that names the type and
\* an id without definition, and the table has entries for the constants
\* only.
BenignAbsenceWitness ==
    /\ pc = "operands"
    /\ i = 2
    /\ GetInOperand(module, inst, 0) = IdOperand(TypeId)
    /\ GetInOperand(module, inst, 1) = IdOperand(UndefinedId)
    /\ GetDef(module, alive, UndefinedId) = NoInst
    /\ DOMAIN use_counts = ConstantsAtStart

\* The loop of lines 57-92 is between two iterations, or over.
AtIterationBoundary == pc = "loop" \/ LoopFinished

\* C14.  An instruction taken from the working list is not in the dead set;
\* an instruction that leaves the working list is in the dead set from then
\* on; nothing of the dead set is inserted into the working list; and at
\* every iteration boundary the working list and the dead set are disjoint.
TakenAtMostOnce ==
    /\ [][run' = run =>
            /\ iterations' # iterations => inst' \notin dead_consts
            /\ \A n \in working_list \ working_list' : n \in dead_consts'
            /\ dead_consts \subseteq dead_consts'
            /\ \A n \in dead_consts :
                   n \in working_list' => n \in working_list]_vars
    /\ [](AtIterationBoundary => working_list \cap dead_consts = {})

\* At an iteration boundary a composite is in the dead set and the constant
\* it freed is in the working list.
TakenAtMostOnceWitness ==
    /\ pc = "loop"
    /\ \E n \in dead_consts : \E c \in working_list :
           <<n, c>> \in DOMAIN decrements

\* The operand positions at which `x` names `c`.
NamingPositions(x, c) ==
    {k \in 1 .. Len(module[x].operands) : module[x].operands[k] = IdOperand(c)}

\* C15, as stated: the count of a constant is decremented at most once for
\* any one composite user.
DecrementedOncePerUser ==
    \A p \in DOMAIN decrements : decrements[p] <= 1

\* C15, amended.  The count of a constant is decremented once for each
\* operand position at which the processed instruction names it, never more:
\* an instruction of the dead set has decremented each constant exactly as
\* many times as it lists it.
DecrementedOncePerOperand ==
    /\ \A p \in DOMAIN decrements :
           decrements[p] <= Cardinality(NamingPositions(p[1], p[2]))
    /\ \A x \in dead_consts : \A c \in ConstantsAtStart :
           At(decrements, <<x, c>>) = Cardinality(NamingPositions(x, c))

\* A composite that lists one constant twice is in the dead set and has
\* decremented that constant twice.
DecrementedOncePerOperandWitness ==
    \E x \in dead_consts : \E c \in ConstantsAtStart :
        /\ Cardinality(NamingPositions(x, c)) = 2
        /\ At(decrements, <<x, c>>) = 2

\* C16.  No instruction gets more than one removal request: when the kill
\* loops are over each dead constant has exactly one KillDef request and
\* each dead-metadata instruction exactly one KillInst request, nothing
\* else has any, and the dead set and the dead-metadata set are disjoint.
KilledExactlyOnce ==
    /\ dead_consts \cap dead_others = {}
    /\ \A n \in InstIds : killdef_reqs[n] + killinst_reqs[n] <= 1
    /\ pc \in {"return", "done"} =>
           \A n \in InstIds :
               /\ killdef_reqs[n] = (IF n \in dead_consts THEN 1 ELSE 0)
               /\ killinst_reqs[n] = (IF n \in dead_others THEN 1 ELSE 0)

\* Process finished having killed, once, a group decoration that names two
\* dead constants.
KilledExactlyOnceWitness ==
    /\ pc = "done"
    /\ \E n \in dead_others :
           /\ Cardinality(ConstantsNamedBy(n) \cap dead_consts) = 2
           /\ killinst_reqs[n] = 1

\* The uses of `c` by non-metadata instructions that are not in the dead set.
RealUsesByLive(c) ==
    {u \in UsesAtStart(c) :
        ~IsMetadata(module[u[1]].opcode) /\ u[1] \notin dead_consts}

\* C17 (loop invariant).  At every iteration boundary the count of each
\* constant is the number of its uses by non-metadata instructions outside
\* the dead set, and the working list is the set of constants with count
\* zero that are not in the dead set.
LoopInvariant ==
    AtIterationBoundary =>
        /\ DOMAIN use_counts = ConstantsAtStart
        /\ \A c \in ConstantsAtStart :
               use_counts[c] = Cardinality(RealUsesByLive(c))
        /\ working_list =
               {c \in ConstantsAtStart : use_counts[c] = 0} \ dead_consts

\* At an iteration boundary a dead composite has brought the count of a
\* constant another instruction still uses from two down to one.
LoopInvariantWitness ==
    /\ AtIterationBoundary
    /\ \E c \in ConstantsAtStart :
           /\ use_counts[c] = 1
           /\ Cardinality(RealUses(module, started, c)) = 2
           /\ \E x \in dead_consts : <<x, c>> \in DOMAIN decrements

\* The dead-metadata set the final dead set determines.
MetadataOfDead ==
    UNION {MetadataUsers(module, started, c) : c \in dead_consts}

\* C18 (phase ordering).  While no discovery is finished nothing is
\* requested and the module is as it was; every request is made with the
\* working list empty and the dead-metadata set complete; and a KillInst is
\* requested only when every dead constant has had its KillDef.
KillsAfterDiscovery ==
    /\ ~DiscoveryFinished => NoKillRequested /\ alive = started
    /\ ~NoKillRequested =>
           /\ working_list = {}
           /\ dead_others = MetadataOfDead
    /\ (\E n \in InstIds : killinst_reqs[n] > 0) =>
           \A dc \in dead_consts : killdef_reqs[dc] > 0

\* The loop of line 110 is under way: one of two dead constants is killed,
\* no metadata yet, although the dead-metadata set is not empty.
KillsAfterDiscoveryWitness ==
    /\ pc = "killdef"
    /\ dead_others # {}
    /\ \E a, b \in dead_consts :
           killdef_reqs[a] = 1 /\ killdef_reqs[b] = 0
    /\ \A n \in InstIds : killinst_reqs[n] = 0

\* The sets of constants each of which has a real use in a constant of the
\* set: a composite that lists itself, constants that name each other in a
\* cycle.
CyclicSets ==
    LET users == [c \in ConstantsAtStart |-> {u[1] : u \in UsesAtStart(c)}]
    IN  {S \in SUBSET ConstantsAtStart :
            /\ S # {}
            /\ \A c \in S : users[c] \cap S # {}}

\* The members of the cyclic sets are neither in the working list nor in the
\* dead set, the assertion has not failed on a module that has such a set,
\* and when Process has finished the members are still in the module.
CyclesUntouched ==
    /\ ((working_list \cup dead_consts) # {}) =>
           (\A S \in CyclicSets :
                S \cap (working_list \cup dead_consts) = {})
    /\ (pc = "failed") => (CyclicSets = {})
    /\ (pc = "done") =>
           (\A S \in CyclicSets :
                /\ S \subseteq alive
                /\ \A c \in S : killdef_reqs[c] = 0)

\* C19.  Constants that refer to themselves or to each other in a cycle are
\* never in the working list or the dead set; on such a module the assertion
\* does not fail, Process runs to its end, and when it has finished they are
\* still in the module.
CyclesAreKept == []CyclesUntouched /\ <>(pc = "done")

\* Process finished on a module with a composite that lists itself, named
\* by a debug name, and with another constant that it removed.
CyclesAreKeptWitness ==
    /\ pc = "done"
    /\ run = "first"
    /\ dead_consts # {}
    /\ \E c \in ConstantsAtStart :
           /\ {c} \in CyclicSets
           /\ \E u \in UsesAtStart(c) : module[u[1]].opcode = "OpName"

====
